---- MODULE Spec2Model ----
(***************************************************************************)
(* A model of aspeak's session engine: SynthesizerConfig::connect and the  *)
(* synthesize_ssml receive loop of Synthesizer (src/src/synthesizer.rs)    *)
(* and WebsocketSynthesizer (src/src/synthesizer/websocket.rs).            *)
(*                                                                         *)
(* The websocket stream is a log of the items the transport has delivered  *)
(* (`stream`) and the number of them the program has taken off it (`rpos`).*)
(***************************************************************************)
EXTENDS Integers, Sequences, FiniteSets

\* ------------------------------------------------------------------ bounds
\* Items the transport delivers on one connection.
MaxFrames == 3
\* synthesize_ssml calls made on one session.
MaxCalls == 2

\* --------------------------------------------------------------- constants
\* The two structs that own an established stream.
Impls == {"Synthesizer", "WebsocketSynthesizer"}

None == <<>>
Some(x) == <<x>>

\* An error value: kind, the connection-closed payload, and the wrapped cause.
Error(kind, code, reason, source) ==
    [kind |-> kind, code |-> code, reason |-> reason, source |-> source]

\* Result<Vec<u8>, E> of a synthesize_ssml call; NoResult before any return.
NoResult == [status |-> "none", value |-> <<>>, error |-> None]
Ok(v) == [status |-> "ok", value |-> v, error |-> None]
Err(e) == [status |-> "err", value |-> <<>>, error |-> Some(e)]

\* ----------------------------------------------------------- inbound items
\* A header line of the header-block grammar.
H(key, value) == <<key, value>>

TextFrame(lines, term, body) ==
    [t |-> "Text", lines |-> lines, term |-> term, body |-> body,
     hlen |-> 0, payload |-> <<>>, frame |-> None, err |-> ""]
BinaryFrame(hlen, lines, payload) ==
    [t |-> "Binary", lines |-> lines, term |-> TRUE, body |-> "",
     hlen |-> hlen, payload |-> payload, frame |-> None, err |-> ""]
CloseFrame(frame) ==
    [t |-> "Close", lines |-> <<>>, term |-> TRUE, body |-> "",
     hlen |-> 0, payload |-> <<>>, frame |-> frame, err |-> ""]
\* Some(Err(e)) from the stream: a transport read error.
ReadError(e) ==
    [t |-> "Err", lines |-> <<>>, term |-> TRUE, body |-> "",
     hlen |-> 0, payload |-> <<>>, frame |-> None, err |-> e]
\* None from the stream: the stream has ended.
StreamEnd ==
    [t |-> "End", lines |-> <<>>, term |-> TRUE, body |-> "",
     hlen |-> 0, payload |-> <<>>, frame |-> None, err |-> ""]

TurnStartF == TextFrame(<<H("X-RequestId", "r"), H("Path", "turn.start")>>, TRUE, "")
ResponseF  == TextFrame(<<H("Path", "response")>>, TRUE, "ack")
TurnEndF   == TextFrame(<<H("Path", "turn.end")>>, TRUE, "")
MetaM1F    == TextFrame(<<H("Path", "audio.metadata")>>, TRUE, "m1")
MetaM2F    == TextFrame(<<H("Path", "audio.metadata")>>, TRUE, "m2")
OtherPathF == TextFrame(<<H("Path", "future.kind")>>, TRUE, "x")
NoPathF    == TextFrame(<<H("X-RequestId", "r")>>, TRUE, "")
AudioAF    == BinaryFrame(1, <<H("Path", "audio")>>, <<65>>)
AudioBF    == BinaryFrame(1, <<H("Path", "audio")>>, <<66, 67>>)
\* Declared header length 5, but only 1 + 1 units follow the prefix.
LongHeaderF == BinaryFrame(5, <<H("Path", "audio")>>, <<65>>)
CloseNoneF == CloseFrame(None)
Close1006F == CloseFrame(Some([code |-> 1006, reason |-> ""]))
ResetE     == ReadError("ResetWithoutClosingHandshake")

StreamItems ==
    {TurnStartF, ResponseF, TurnEndF, MetaM1F, MetaM2F, OtherPathF, NoPathF,
     AudioAF, AudioBF, LongHeaderF, CloseNoneF, Close1006F, ResetE, StreamEnd}

\* ---------------------------------------------------------------- codec
ParseError == [k |-> "ParseError", body |-> "", data |-> <<>>, frame |-> None]
Msg(k, body, data, frame) == [k |-> k, body |-> body, data |-> data, frame |-> frame]

HasPath(lines) == \E i \in 1..Len(lines) : lines[i][1] = "Path"
PathOf(lines) == lines[CHOOSE i \in 1..Len(lines) : lines[i][1] = "Path"][2]

\* WebSocketMessage::try_from(&raw_msg)
TryFrom(raw) ==
    CASE raw.t = "Close" -> Msg("Close", "", <<>>, raw.frame)
      [] raw.t = "Text" ->
            IF ~raw.term \/ ~HasPath(raw.lines) THEN ParseError
            ELSE CASE PathOf(raw.lines) = "turn.start" -> Msg("TurnStart", "", <<>>, None)
                   [] PathOf(raw.lines) = "response" -> Msg("Response", raw.body, <<>>, None)
                   [] PathOf(raw.lines) = "turn.end" -> Msg("TurnEnd", "", <<>>, None)
                   [] PathOf(raw.lines) = "audio.metadata" ->
                          Msg("AudioMetadata", raw.body, <<>>, None)
                   [] OTHER -> Msg("Unrecognized", "", <<>>, None)
      [] raw.t = "Binary" ->
            IF raw.hlen > Len(raw.lines) + Len(raw.payload) \/ ~HasPath(raw.lines)
            THEN ParseError
            ELSE IF PathOf(raw.lines) = "audio"
                 THEN Msg("Audio", "", raw.payload, None)
                 ELSE Msg("Unrecognized", "", <<>>, None)
      [] OTHER -> Msg("Unrecognized", "", <<>>, None)

\* ---------------------------------------------------------------- errors
Digit == <<"0", "1", "2", "3", "4", "5", "6", "7", "8", "9">>

\* u16::to_string, as CloseCode's Display prints it.
RECURSIVE to_string(_)
to_string(n) == IF n < 10 THEN Digit[n + 1] ELSE to_string(n \div 10) \o Digit[(n % 10) + 1]

\* WebsocketSynthesizerError::connection_closed; Synthesizer builds the same
\* pair as AspeakError::ConnectionCloseError { code, reason }.
connection_closed(code, reason) == Error("ConnectionClosed", code, reason, "None")

\* Mutant: a transport error reported as a closed connection.
FromTungstenite_AsClosed(e) ==
    connection_closed("Unknown", "The server closed the connection without a reason")

\* Mutant: a transport error reported as an invalid request.
FromTungstenite_AsInvalidRequest(e) == Error("InvalidRequest", "", "", e)

\* From<tungstenite::Error>: kind Websocket, the error kept as source.
FromTungstenite(e) == Error("Websocket", "", "", e)

\* Mutant: the parse error given the kind of the transport errors.
FromParseError_AsWebsocket(e) == Error("Websocket", "", "", e)

\* From<msg::ParseError>: kind InvalidMessage, the error kept as source.
FromParseError(e) == Error("InvalidMessage", "", "", e)

\* From<ConnectError>: kind Connect.
FromConnectError(e) == Error("Connect", "", "", e)

\* From<url::ParseError> and From<InvalidHeaderValue>: kind InvalidRequest.
FromInvalidRequest(e) == Error("InvalidRequest", "", "", e)

\* The conversions into AspeakError that `?` applies in synthesizer.rs
\* (crate::errors), by the type of the cause.
AspeakErrorFrom(ty, e) ==
    CASE ty = "tungstenite" -> Error("Websocket", "", "", e)
      [] ty = "parse" -> Error("InvalidMessage", "", "", e)
      [] ty = "connect" -> Error("Connect", "", "", e)
      [] OTHER -> Error("InvalidRequest", "", "", e)

\* Mutant: every cause converted as if it were a transport error.
Into_AllWebsocket(im, ty, e) == Error("Websocket", "", "", e)

\* The error `?` produces in each struct's synthesize_ssml.
Into(im, ty, e) ==
    IF im = "WebsocketSynthesizer"
    THEN CASE ty = "tungstenite" -> FromTungstenite(e)
           [] ty = "parse" -> FromParseError(e)
           [] ty = "connect" -> FromConnectError(e)
           [] OTHER -> FromInvalidRequest(e)
    ELSE AspeakErrorFrom(ty, e)

\* Mutant: the frame's code and reason dropped.
OnClose_DropsFrame(frame) ==
    connection_closed("Unknown", "The server closed the connection without a reason")

\* The Close arm: frame.map_or_else(..)
OnClose(frame) ==
    IF frame = None
    THEN connection_closed("Unknown", "The server closed the connection without a reason")
    ELSE connection_closed(to_string(frame[1].code), frame[1].reason)

\* Mutant: the payload put in front of the buffer.
OnAudio_Prepends(buf, data) == data \o buf

\* The Audio arm: buffer.extend_from_slice(data)
OnAudio(buf, data) == buf \o data

\* Mutant: the body replaces the metadata collected so far.
OnAudioMetadata_Replaces(meta, body) == <<body>>

\* The AudioMetadata arm: audio_metadata.push(body.to_string())
OnAudioMetadata(meta, body) == Append(meta, body)

\* Mutant: the Close arm leaves the loop like TurnEnd.
Arm_CloseBreaks(im, k) ==
    CASE k \in {"TurnStart", "Response"} -> "continue"
      [] k = "Audio" -> "audio"
      [] k = "AudioMetadata" /\ im = "WebsocketSynthesizer" -> "metadata"
      [] k \in {"TurnEnd", "Close"} -> "break"
      [] OTHER -> "warn"

\* Mutant: the catch-all arm leaves the loop.
Arm_CatchAllBreaks(im, k) ==
    CASE k \in {"TurnStart", "Response"} -> "continue"
      [] k = "Audio" -> "audio"
      [] k = "AudioMetadata" /\ im = "WebsocketSynthesizer" -> "metadata"
      [] k = "Close" -> "close"
      [] OTHER -> "break"

\* Mutant: a TurnEnd only logged, the loop going on.
Arm_TurnEndIgnored(im, k) ==
    CASE k \in {"TurnStart", "Response"} -> "continue"
      [] k = "Audio" -> "audio"
      [] k = "AudioMetadata" /\ im = "WebsocketSynthesizer" -> "metadata"
      [] k = "Close" -> "close"
      [] OTHER -> "warn"

\* Mutant: a TurnStart leaves the loop.
Arm_TurnStartBreaks(im, k) ==
    CASE k = "Response" -> "continue"
      [] k = "Audio" -> "audio"
      [] k = "AudioMetadata" /\ im = "WebsocketSynthesizer" -> "metadata"
      [] k \in {"TurnStart", "TurnEnd"} -> "break"
      [] k = "Close" -> "close"
      [] OTHER -> "warn"

\* Which arm of `match msg` a parsed message takes in each struct's loop.
Arm(im, k) ==
    CASE k \in {"TurnStart", "Response"} -> "continue"
      [] k = "Audio" -> "audio"
      [] k = "AudioMetadata" /\ im = "WebsocketSynthesizer" -> "metadata"
      [] k = "TurnEnd" -> "break"
      [] k = "Close" -> "close"
      [] OTHER -> "warn"

\* ----------------------------------------------------------------- state
VARIABLES
    config,           \* the SynthesizerConfig, until connect consumes it
    impl,             \* the struct that owns the stream once connected
    conn,             \* "none" | "open" | "failed"
    connect_error,    \* the Err of a failed connect
    sent,             \* Path of every message sent on the connection, in order
    stream,           \* items the transport has delivered, in order
    rpos,             \* how many of them stream.next() has yielded
    call_start,       \* rpos when the running (or last) call was entered
    pc,               \* "idle" | "send_ssml" | "recv" | "returned"
    buffer,           \* the local `buffer`
    audio_metadata,   \* the local `audio_metadata`
    self_audio_metadata, \* the field self.audio_metadata (an Option)
    result,           \* what the last call returned
    calls,            \* calls started on the session
    arg,              \* the arguments of a function applied on its own
    ret,              \* what that function returned
    task_pc,          \* where each of the concurrent calls on one instance is
    borrows,          \* which call holds the RefCell of the write and read halves
    log               \* sends and reads done on the shared stream, in order

vars == <<config, impl, conn, connect_error, sent, stream, rpos, call_start, pc,
          buffer, audio_metadata, self_audio_metadata, result, calls, arg, ret,
          task_pc, borrows, log>>

\* The session: everything but the arguments and result of a lone function.
session == <<config, impl, conn, connect_error, sent, stream, rpos, call_start, pc,
             buffer, audio_metadata, self_audio_metadata, result, calls>>

\* What a step of the one sequential caller leaves alone.
aside == <<arg, ret, task_pc, borrows, log>>

\* Proxy settings a caller can put in the config (auth.proxy).
ProxyInputs == {None, Some("socks5://p"), Some("http://p"), Some("https://p"),
                Some("ftp://p"), Some("::invalid")}

\* reqwest::Url::parse(..).scheme(); "" stands for a parse failure.
Scheme(url) ==
    CASE url = "socks5://p" -> "socks5"
      [] url = "http://p" -> "http"
      [] url = "https://p" -> "https"
      [] url = "ftp://p" -> "ftp"
      [] OTHER -> ""

\* generate_client_request fails on an unparsable endpoint or key.
RequestInputs == {"ok", "bad_endpoint", "bad_key"}

Consumed == [proxy |-> None, request |-> "moved"]

Init ==
    /\ config \in [proxy : ProxyInputs, request : RequestInputs]
    /\ impl \in Impls
    /\ conn = "none"
    /\ connect_error = None
    /\ sent = <<>>
    /\ stream = <<>>
    /\ rpos = 0
    /\ call_start = 0
    /\ pc = "idle"
    /\ buffer = <<>>
    /\ audio_metadata = <<>>
    /\ self_audio_metadata = None
    /\ result = NoResult
    /\ calls = 0
    /\ arg = None
    /\ ret = None
    /\ task_pc = <<>>
    /\ borrows = [write |-> 0, read |-> 0]
    /\ log = <<>>

\* Mutant: a bad proxy reported as a bad argument.
GeneralConnectionError_AsArgument(e) == Error("ArgumentError", "", "", e)

\* AspeakError::GeneralConnectionError(..), built in connect for a bad proxy.
GeneralConnectionError(e) == Error("GeneralConnectionError", "", "", e)

\* AspeakError::ArgumentError(..), built for a key that is no header value.
ArgumentError(e) == Error("ArgumentError", "", "", e)

\* What connect returns before it touches the network: None when the request
\* and the proxy are usable, else the error.
ConnectPrecheck(cfg) ==
    CASE cfg.request = "bad_endpoint" -> Some(AspeakErrorFrom("url", "url::ParseError"))
      [] cfg.request = "bad_key" -> Some(ArgumentError("InvalidHeaderValue"))
      [] cfg.proxy # None /\ Scheme(cfg.proxy[1]) = "" ->
             Some(GeneralConnectionError("Invalid proxy url"))
      [] cfg.proxy # None /\ Scheme(cfg.proxy[1]) \notin {"socks5", "http", "https"} ->
             Some(GeneralConnectionError("Unsupported proxy scheme"))
      [] OTHER -> None

\* The messages connect sends on the new stream before returning the session.
HandshakeMessages == <<"speech.config">>

\* SynthesizerConfig::connect(self)
Connect ==
    /\ conn = "none"
    /\ \E established \in BOOLEAN, send_ok \in BOOLEAN :
         LET pre == ConnectPrecheck(config)
             e == IF pre # None THEN pre
                  ELSE IF ~established THEN Some(AspeakErrorFrom("connect", "ConnectError"))
                  ELSE IF ~send_ok THEN Some(AspeakErrorFrom("tungstenite", "SendError"))
                  ELSE None
         IN /\ conn' = IF e = None THEN "open" ELSE "failed"
            /\ connect_error' = e
            /\ sent' = IF e = None THEN HandshakeMessages ELSE sent
    /\ config' = Consumed
    /\ UNCHANGED <<impl, stream, rpos, call_start, pc, buffer, audio_metadata,
                   self_audio_metadata, result, calls, aside>>

\* The transport delivers one more item to the receive half.
Deliver ==
    /\ conn = "open"
    /\ Len(stream) < MaxFrames
    /\ IF stream = <<>> THEN TRUE ELSE stream[Len(stream)] # StreamEnd
    /\ \E item \in StreamItems : stream' = Append(stream, item)
    /\ UNCHANGED <<config, impl, conn, connect_error, sent, rpos, call_start, pc,
                   buffer, audio_metadata, self_audio_metadata, result, calls, aside>>

\* Mutant: every call sends the handshake message again.
ContextMessages_ResendsConfig == <<"speech.config", "synthesis.context">>

\* What the first send of a call puts on the wire.
ContextMessages == <<"synthesis.context">>

\* Mutant: the ssml message is sent twice.
SsmlMessages_Twice == <<"ssml", "ssml">>

\* What the second send of a call puts on the wire.
SsmlMessages == <<"ssml">>

\* synthesize_ssml, from entry to the first send(..).await?
SendContext ==
    /\ conn = "open"
    /\ pc \in {"idle", "returned"}
    /\ calls < MaxCalls
    /\ calls' = calls + 1
    /\ \E send_ok \in BOOLEAN :
         IF send_ok
         THEN /\ sent' = sent \o ContextMessages
              /\ pc' = "send_ssml"
              /\ result' = NoResult
         ELSE /\ sent' = sent
              /\ pc' = "returned"
              /\ result' = Err(Into(impl, "tungstenite", "SendError"))
    /\ call_start' = rpos
    /\ UNCHANGED <<config, impl, conn, connect_error, stream, rpos,
                   buffer, audio_metadata, self_audio_metadata, aside>>

\* synthesize_ssml, the second send(..).await? and the two Vec::new()
SendSsml ==
    /\ pc = "send_ssml"
    /\ \E send_ok \in BOOLEAN :
         IF send_ok
         THEN /\ sent' = sent \o SsmlMessages
              /\ pc' = "recv"
              /\ result' = result
         ELSE /\ sent' = sent
              /\ pc' = "returned"
              /\ result' = Err(Into(impl, "tungstenite", "SendError"))
    /\ buffer' = <<>>
    /\ audio_metadata' = <<>>
    /\ UNCHANGED <<config, impl, conn, connect_error, stream, rpos, call_start,
                   self_audio_metadata, calls, aside>>

\* What one pass of the `while let` loop does with the item the stream yields:
\* the next position, the locals, and the return value if the call returns.
LoopStep(im, item, buf, meta) ==
    LET m == TryFrom(item)
        arm == Arm(im, m.k)
        go(b, md) == [ret |-> NoResult, exit |-> FALSE, buffer |-> b, meta |-> md]
        fail(e) == [ret |-> Err(e), exit |-> FALSE, buffer |-> <<>>, meta |-> <<>>]
    IN CASE item.t = "End" -> [ret |-> Ok(buf), exit |-> TRUE, buffer |-> buf, meta |-> meta]
         [] item.t = "Err" -> fail(Into(im, "tungstenite", item.err))
         [] m = ParseError -> fail(Into(im, "parse", "ParseError"))
         [] arm = "audio" -> go(OnAudio(buf, m.data), meta)
         [] arm = "metadata" -> go(buf, OnAudioMetadata(meta, m.body))
         [] arm = "break" -> [ret |-> Ok(buf), exit |-> TRUE, buffer |-> buf, meta |-> meta]
         [] arm = "close" -> fail(OnClose(m.frame))
         [] OTHER -> go(buf, meta)

\* Mutant: the call's metadata added to what the field already holds.
StoreMetadata_Appends(im, field, meta) ==
    IF im # "WebsocketSynthesizer" THEN field
    ELSE IF field = None THEN Some(meta)
    ELSE Some(field[1] \o meta)

\* The field self.audio_metadata after the loop is left normally.
StoreMetadata(im, field, meta) ==
    IF im = "WebsocketSynthesizer" THEN Some(meta) ELSE field

\* synthesize_ssml, one stream.next().await of the receive loop and what follows it
Receive ==
    /\ pc = "recv"
    /\ rpos < Len(stream)
    /\ LET item == stream[rpos + 1]
           s == LoopStep(impl, item, buffer, audio_metadata)
       IN /\ rpos' = IF item.t = "End" THEN rpos ELSE rpos + 1
          /\ IF s.ret = NoResult
             THEN /\ buffer' = s.buffer
                  /\ audio_metadata' = s.meta
                  /\ UNCHANGED <<pc, result, self_audio_metadata>>
             ELSE /\ pc' = "returned"
                  /\ result' = s.ret
                  /\ buffer' = <<>>
                  /\ audio_metadata' = <<>>
                  /\ self_audio_metadata' =
                        IF s.exit THEN StoreMetadata(impl, self_audio_metadata, s.meta)
                        ELSE self_audio_metadata
    /\ UNCHANGED <<config, impl, conn, connect_error, sent, stream, call_start, calls,
                   aside>>

Next == Connect \/ Deliver \/ SendContext \/ SendSsml \/ Receive

Spec == Init /\ [][Next]_vars

\* ------------------------------------------------------------ properties
\* The items the running (or last) call has taken off the stream, in order.
Processed == SubSeq(stream, call_start + 1, rpos)

Last(q) == q[Len(q)]
Front(q) == SubSeq(q, 1, Len(q) - 1)

IsKind(item, k) == item.t \in {"Text", "Binary", "Close"} /\ TryFrom(item).k = k

\* An item that ends a call: TurnEnd, Close, a read error or an unparsable frame.
Terminal(item) ==
    \/ item.t \in {"Close", "Err"}
    \/ IsKind(item, "TurnEnd")
    \/ IsKind(item, "ParseError")

NoTerminal(q) == \A i \in 1..Len(q) : ~Terminal(q[i])

\* The payloads of the Audio messages of q, concatenated in order.
RECURSIVE AudioOf(_)
AudioOf(q) ==
    IF q = <<>> THEN <<>>
    ELSE IF IsKind(q[1], "Audio") THEN q[1].payload \o AudioOf(Tail(q))
    ELSE AudioOf(Tail(q))

\* The bodies of the AudioMetadata messages of q, in order.
RECURSIVE MetaOf(_)
MetaOf(q) ==
    IF q = <<>> THEN <<>>
    ELSE IF IsKind(q[1], "AudioMetadata") THEN <<q[1].body>> \o MetaOf(Tail(q))
    ELSE MetaOf(Tail(q))

HasMetadata == impl = "WebsocketSynthesizer"

\* The call is in its receive loop or has returned from it.
InOrAfterLoop == pc \in {"recv", "returned"} /\ Processed # <<>>

\* C1: when the first terminal item a call receives is a TurnEnd, the call
\* returns Ok with the payloads of the Audio messages received before it,
\* concatenated in arrival order, and (in the struct that keeps metadata) the
\* metadata is the bodies of the AudioMetadata messages before it, in order.
C1_TurnEndReturnsAudioAndMetadata ==
    (InOrAfterLoop /\ IsKind(Last(Processed), "TurnEnd") /\ NoTerminal(Front(Processed)))
    => /\ pc = "returned"
       /\ result = Ok(AudioOf(Front(Processed)))
       /\ HasMetadata => self_audio_metadata = Some(MetaOf(Front(Processed)))

\* The spec's example with one frame less: Audio A, AudioMetadata m1, TurnEnd
\* returned as buffer A and metadata [m1].
C1_Witness ==
    /\ pc = "returned"
    /\ HasMetadata
    /\ Processed = <<AudioAF, MetaM1F, TurnEndF>>
    /\ result = Ok(<<65>>)
    /\ self_audio_metadata = Some(<<"m1">>)

\* C2: while a call is in its receive loop the buffer is the in-order
\* concatenation of the Audio payloads processed so far and the metadata is
\* the in-order list of the AudioMetadata bodies processed so far; the items
\* processed are a contiguous run of the stream in delivery order.
C2_BufferIsAudioProcessedSoFar ==
    pc = "recv"
    => /\ buffer = AudioOf(Processed)
       /\ audio_metadata = (IF HasMetadata THEN MetaOf(Processed) ELSE <<>>)
       /\ call_start <= rpos /\ rpos <= Len(stream)

C2_Witness ==
    /\ pc = "recv"
    /\ HasMetadata
    /\ Processed = <<AudioBF, ResponseF, AudioAF>>
    /\ buffer = <<66, 67, 65>>

\* C3: a Close frame received at any point of a call fails it with
\* ConnectionClosed: code 1006 and reason "" give code "1006" and reason "",
\* and a frame that carries nothing gives "Unknown" and the default reason.
C3_CloseFailsWithConnectionClosed ==
    (InOrAfterLoop /\ Last(Processed).t = "Close" /\ NoTerminal(Front(Processed)))
    => /\ pc = "returned"
       /\ result.status = "err"
       /\ result.error[1].kind = "ConnectionClosed"
       /\ result.error[1].source = "None"
       /\ Last(Processed) = Close1006F
            => result.error[1].code = "1006" /\ result.error[1].reason = ""
       /\ Last(Processed) = CloseNoneF
            => /\ result.error[1].code = "Unknown"
               /\ result.error[1].reason =
                    "The server closed the connection without a reason"

C3_Witness ==
    /\ pc = "returned"
    /\ Processed = <<TurnStartF, AudioAF, Close1006F>>
    /\ result.status = "err"
    /\ result.error[1].code = "1006"

\* The last call returned because one of its two sends failed.
SendFailed ==
    /\ pc = "returned"
    /\ result.status = "err"
    /\ result.error[1].source = "SendError"

\* The last call left its loop because the stream ended (next() gave None)
\* before any terminal item.
EndedByStreamEnd ==
    /\ pc = "returned"
    /\ ~SendFailed
    /\ NoTerminal(Processed)
    /\ rpos < Len(stream)
    /\ stream[rpos + 1] = StreamEnd

\* The last call returned on a transport read error, before any other
\* terminal item.
EndedByReset ==
    /\ pc = "returned"
    /\ Processed # <<>>
    /\ Last(Processed) = ResetE
    /\ NoTerminal(Front(Processed))

DefaultCloseError ==
    Error("ConnectionClosed", "Unknown",
          "The server closed the connection without a reason", "None")

C5_ReturnsOnlyOnTerminalEvent ==
    pc = "returned"
    => \/ SendFailed /\ Processed = <<>>
       \/ /\ Processed # <<>>
          /\ Terminal(Last(Processed))
          /\ NoTerminal(Front(Processed))

\* C6: a call that failed (Close, read or write error, unparsable frame)
\* returns an error only: no buffer is returned, the locals are gone, and the
\* call is over.
C6_FailureDiscardsBuffer ==
    (/\ pc \in {"recv", "returned"}
     /\ \/ SendFailed
        \/ /\ Processed # <<>>
           /\ Terminal(Last(Processed))
           /\ ~IsKind(Last(Processed), "TurnEnd"))
    => /\ pc = "returned"
       /\ result.status = "err"
       /\ result.value = <<>>
       /\ buffer = <<>>
       /\ audio_metadata = <<>>

\* Audio B was accumulated, then the frame with the long header failed the call.
C6_Witness ==
    /\ pc = "returned"
    /\ Processed = <<AudioBF, MetaM1F, LongHeaderF>>
    /\ result.status = "err"
    /\ result.value = <<>>

\* The frames of StreamItems the codec rejects.
UnparsableFrames == {LongHeaderF, NoPathF}

\* C7: a failed send (either one), a read error and an unparsable frame each
\* fail the call in the step in which they occur, the transport errors with
\* kind Websocket and the parse error with kind InvalidMessage, and a call
\* that has returned takes nothing more off the stream.
C7_TransportAndParseErrorsFailTheCall ==
    [][/\ (pc \in {"idle", "returned"} /\ calls' = calls + 1 /\ pc' = "returned")
            => /\ result' = Err(Error("Websocket", "", "", "SendError"))
               /\ rpos' = rpos /\ sent' = sent
       /\ (pc = "send_ssml" /\ pc' = "returned")
            => /\ result' = Err(Error("Websocket", "", "", "SendError"))
               /\ rpos' = rpos /\ sent' = sent
       /\ (pc = "recv" /\ rpos' = rpos + 1 /\ stream[rpos + 1].t = "Err")
            => /\ pc' = "returned"
               /\ result' = Err(Error("Websocket", "", "", stream[rpos + 1].err))
       /\ (pc = "recv" /\ rpos' = rpos + 1 /\ stream[rpos + 1] \in UnparsableFrames)
            => /\ pc' = "returned"
               /\ result' = Err(Error("InvalidMessage", "", "", "ParseError"))
       /\ pc = "returned" => rpos' = rpos
      ]_vars

\* A frame without Path failed the call while a later frame was waiting.
C7_Witness ==
    /\ pc = "returned"
    /\ Processed = <<AudioAF, NoPathF>>
    /\ rpos < Len(stream)
    /\ result = Err(Error("InvalidMessage", "", "", "ParseError"))

\* C8 as stated: after a binary frame whose declared header length exceeds
\* the bytes that follow, the receive loop is still running and goes on to
\* the following frames.
C8_LoopContinuesAfterLongHeader ==
    (InOrAfterLoop /\ Last(Processed) = LongHeaderF /\ NoTerminal(Front(Processed)))
    => pc = "recv"

\* C8 as amended: such a frame fails the call with InvalidMessage (the parse
\* error as its source); the receive loop of that call stops at the frame and
\* the frames after it stay in the stream, unread by that call.
C8_LongHeaderFailsTheCall ==
    (InOrAfterLoop /\ Last(Processed) = LongHeaderF /\ NoTerminal(Front(Processed)))
    => /\ pc = "returned"
       /\ result = Err(Error("InvalidMessage", "", "", "ParseError"))
       /\ rpos = call_start + Len(Processed)

C8_Witness ==
    /\ pc = "returned"
    /\ stream = <<AudioAF, LongHeaderF, AudioBF>>
    /\ Processed = <<AudioAF, LongHeaderF>>
    /\ result.status = "err"
    /\ result.error[1].kind = "InvalidMessage"

\* The frames a struct's loop has no arm for.
Unhandled(im) ==
    {OtherPathF} \cup (IF im = "Synthesizer" THEN {MetaM1F, MetaM2F} ELSE {})

\* C9: a message the loop has no arm for never ends or fails the call: the
\* step that processes it leaves the buffer, the metadata and the result
\* unchanged and the call in its receive loop.
C9_UnrecognizedIsIgnored ==
    [][(pc = "recv" /\ rpos' = rpos + 1 /\ stream[rpos + 1] \in Unhandled(impl))
         => /\ pc' = "recv"
            /\ buffer' = buffer
            /\ audio_metadata' = audio_metadata
            /\ self_audio_metadata' = self_audio_metadata
            /\ result' = result
      ]_vars

\* Two unrecognized messages, around an Audio, and the call still receiving.
C9_Witness ==
    /\ pc = "recv"
    /\ Processed = <<OtherPathF, AudioAF, OtherPathF>>
    /\ buffer = <<65>>
    /\ result = NoResult

\* C10: on an established connection speech.config is the first message
\* sent and is sent once, so it precedes every synthesis.context and ssml
\* message of every call; nothing is sent without an established connection.
C10_SpeechConfigFirstAndOnce ==
    /\ conn = "open"
         => /\ sent # <<>>
            /\ sent[1] = "speech.config"
            /\ \A i \in 2..Len(sent) : sent[i] # "speech.config"
    /\ conn # "open" => sent = <<>>

\* Two whole calls after the handshake.
C10_Witness ==
    /\ conn = "open"
    /\ sent = <<"speech.config", "synthesis.context", "ssml", "synthesis.context", "ssml">>

\* How many times x occurs in q.
Count(q, x) == Cardinality({i \in 1..Len(q) : q[i] = x})

\* C11: a call sends one synthesis.context and then one ssml, both before it
\* takes anything off the stream, and nothing else: every ssml follows the
\* synthesis.context of its own call, no call sends either twice, and a call
\* that is receiving or has received has these two as the last messages sent.
C11_ContextThenSsmlBeforeReading ==
    /\ Count(sent, "synthesis.context") <= calls
    /\ Count(sent, "ssml") <= Count(sent, "synthesis.context")
    /\ \A i \in 1..Len(sent) :
         /\ sent[i] \in {"speech.config", "synthesis.context", "ssml"}
         /\ sent[i] = "ssml" => (i > 1 /\ sent[i - 1] = "synthesis.context")
    /\ pc = "send_ssml"
         => /\ sent[Len(sent)] = "synthesis.context"
            /\ rpos = call_start
    /\ (pc = "recv" \/ (pc = "returned" /\ Processed # <<>>))
         => /\ Len(sent) >= 3
            /\ sent[Len(sent) - 1] = "synthesis.context"
            /\ sent[Len(sent)] = "ssml"

\* The second call has sent its two messages and is receiving.
C11_Witness ==
    /\ calls = 2
    /\ pc = "recv"
    /\ Processed = <<AudioAF>>
    /\ sent = <<"speech.config", "synthesis.context", "ssml", "synthesis.context", "ssml">>


\* ------------------------------------------------- outbound message text
\* A message's text is the sequence of its pieces; CRLF is the piece that ends
\* a header line and Colon the piece between a header's name and its value.
CRLF == "\r\n"
Colon == ": "

\* Uuid::new_v4().simple() renderings and `{now:?}` renderings of Utc::now().
RequestIds == {"0a1b", "2c3d", "4e5f"}
Timestamps == {"2023-03-01T08:00:00Z", "2023-03-01T08:00:01.5Z", "2023-03-01T08:00:02Z"}

\* Bodies: the client-info payload, two synthesis contexts, two SSML documents.
CLIENT_INFO_PAYLOAD == "{context:{system,os}}"
SynthesisContexts == {"{outputFormat:riff}", "{outputFormat:mp3}"}
SsmlBodies == {"<speak>hi</speak>", "<speak>bye</speak>"}

\* The text connect formats for speech.config.
SpeechConfigText(request_id, now) ==
    <<"Path", Colon, "speech.config", CRLF,
      "X-RequestId", Colon, request_id, CRLF,
      "X-Timestamp", Colon, now, "Content-Type", Colon, "application/json", CRLF,
      CRLF,
      CLIENT_INFO_PAYLOAD>>

\* The text synthesize_ssml formats for synthesis.context.
SynthesisContextText(request_id, now, synthesis_context) ==
    <<"Path", Colon, "synthesis.context", CRLF,
      "X-RequestId", Colon, request_id, CRLF,
      "X-Timestamp", Colon, now, "Content-Type", Colon, "application/json", CRLF,
      CRLF,
      synthesis_context>>

\* The text synthesize_ssml formats for the ssml message.
SsmlText(request_id, now, ssml) ==
    <<"Path", Colon, "ssml", CRLF,
      "X-RequestId", Colon, request_id, CRLF,
      "X-Timestamp", Colon, now, CRLF,
      "Content-Type", Colon, "application/ssml+xml", CRLF,
      CRLF,
      ssml>>

\* Everything the client can be asked to encode.
EncodeInputs ==
    [op : {"encode"}, message : {"speech.config"}, request_id : RequestIds,
     now : Timestamps, body : {CLIENT_INFO_PAYLOAD}]
    \cup [op : {"encode"}, message : {"synthesis.context"}, request_id : RequestIds,
          now : Timestamps, body : SynthesisContexts]
    \cup [op : {"encode"}, message : {"ssml"}, request_id : RequestIds,
          now : Timestamps, body : SsmlBodies]

\* The format! call of the message a names.
Encoded(a) ==
    CASE a.message = "speech.config" -> SpeechConfigText(a.request_id, a.now)
      [] a.message = "synthesis.context" ->
             SynthesisContextText(a.request_id, a.now, a.body)
      [] OTHER -> SsmlText(a.request_id, a.now, a.body)

\* Index of the first CRLF of text, 0 when it has none.
FirstCRLF(text) ==
    IF \E i \in 1..Len(text) : text[i] = CRLF
    THEN CHOOSE i \in 1..Len(text) :
             /\ text[i] = CRLF
             /\ \A j \in 1..(i - 1) : text[j] # CRLF
    ELSE 0

\* The header lines of text: the CRLF-ended lines up to the blank line.
RECURSIVE HeaderLines(_)
HeaderLines(text) ==
    LET i == FirstCRLF(text)
    IN IF i <= 1 THEN <<>>
       ELSE <<SubSeq(text, 1, i - 1)>> \o HeaderLines(SubSeq(text, i + 1, Len(text)))

\* The value of header `key` in the header block of text, as an Option: what
\* follows "key: " on the first line that starts so.
HeaderValue(text, key) ==
    LET lines == HeaderLines(text)
        hits == {i \in 1..Len(lines) :
                    /\ Len(lines[i]) >= 2
                    /\ lines[i][1] = key
                    /\ lines[i][2] = Colon}
    IN IF hits = {} THEN None
       ELSE LET i == CHOOSE k \in hits : \A m \in hits : k <= m
            IN Some(SubSeq(lines[i], 3, Len(lines[i])))

\* What follows the blank line of text.
BodyOf(text) ==
    LET ends == {i \in 2..Len(text) : text[i] = CRLF /\ text[i - 1] = CRLF}
    IN IF ends = {} THEN <<>>
       ELSE LET i == CHOOSE k \in ends : \A m \in ends : k <= m
            IN SubSeq(text, i + 1, Len(text))

\* One outbound message is encoded.
Encode ==
    /\ ret = None
    /\ arg.op = "encode"
    /\ ret' = Some(Encoded(arg))
    /\ UNCHANGED <<session, arg, task_pc, borrows, log>>

\* C12: the header block of every encoded outbound message parses back to the
\* Path, X-RequestId and X-Timestamp that were encoded, and has Content-Type
\* as a header of its own when a body follows.  The code breaks this for
\* speech.config and synthesis.context: no CRLF ends their X-Timestamp line.
C12_HeadersRoundTrip ==
    (arg.op = "encode" /\ ret # None)
        => /\ HeaderValue(ret[1], "Path") = Some(<<arg.message>>)
           /\ HeaderValue(ret[1], "X-RequestId") = Some(<<arg.request_id>>)
           /\ HeaderValue(ret[1], "X-Timestamp") = Some(<<arg.now>>)
           /\ BodyOf(ret[1]) # <<>> => HeaderValue(ret[1], "Content-Type") # None

\* ------------------------------------------------- the upgrade request
\* Endpoints: the trial endpoint, another one, and text that is no URL.
DEFAULT_ENDPOINT == "wss://trial/ws"
Endpoints == {DEFAULT_ENDPOINT, "wss://region/ws", "::"}

\* url::Url::parse(endpoint) succeeds.
UrlParses(endpoint) == endpoint # "::"

ORIGIN == "https://trial"

\* Keys: none, a usable one, and one that is no header value.
Keys == {None, Some("k1"), Some("k\n")}

\* HeaderValue::from_str(key) succeeds.
IsHeaderValue(v) == v # "k\n"

\* Custom header lists; the names differ from each other and from the key's.
CustomHeaders ==
    {<<>>, <<<<"X-A", "1">>>>, <<<<"X-A", "1">>, <<"X-B", "2">>>>,
     <<<<"X-B", "2">>, <<"X-A", "1">>>>}

AuthInputs ==
    [endpoint : Endpoints, token : {None, Some("t")}, key : Keys,
     headers : CustomHeaders]

RequestArgs == [op : {"request"}, auth : AuthInputs]

\* Mutant: the three kinds of header as alternatives, the first that applies.
generate_client_request_FirstOnly(auth) ==
    IF ~UrlParses(auth.endpoint)
    THEN Err(AspeakErrorFrom("url", "url::ParseError"))
    ELSE IF auth.key # None /\ ~IsHeaderValue(auth.key[1])
    THEN Err(ArgumentError("InvalidHeaderValue"))
    ELSE Ok([query |-> <<"X-ConnectionId">>
                         \o (IF auth.token # None THEN <<"Authorization">> ELSE <<>>),
             headers |-> IF auth.key # None
                         THEN <<<<"Ocp-Apim-Subscription-Key", auth.key[1]>>>>
                         ELSE IF auth.headers # <<>> THEN auth.headers
                         ELSE <<<<"Origin", ORIGIN>>>>])

\* SynthesizerConfig::generate_client_request: the query pairs added to the
\* endpoint and the headers added to the request, or the error.
generate_client_request(auth) ==
    IF ~UrlParses(auth.endpoint)
    THEN Err(AspeakErrorFrom("url", "url::ParseError"))
    ELSE IF auth.key # None /\ ~IsHeaderValue(auth.key[1])
    THEN Err(ArgumentError("InvalidHeaderValue"))
    ELSE LET query == <<"X-ConnectionId">>
                        \o (IF auth.token # None THEN <<"Authorization">> ELSE <<>>)
             keyed == IF auth.key # None
                      THEN <<<<"Ocp-Apim-Subscription-Key", auth.key[1]>>>>
                      ELSE <<>>
             rest == IF auth.headers # <<>> THEN auth.headers
                     ELSE IF auth.endpoint = DEFAULT_ENDPOINT
                     THEN <<<<"Origin", ORIGIN>>>>
                     ELSE <<>>
         IN Ok([query |-> query, headers |-> keyed \o rest])

\* One upgrade request is built.
BuildRequest ==
    /\ ret = None
    /\ arg.op = "request"
    /\ ret' = Some(generate_client_request(arg.auth))
    /\ UNCHANGED <<session, arg, task_pc, borrows, log>>

\* The request of the call was built, with these headers.
Built == arg.op = "request" /\ ret # None /\ ret[1].status = "ok"
BuiltHeaders == ret[1].value.headers

HasHeader(hs, name) == \E i \in 1..Len(hs) : hs[i][1] = name

\* Which of the three kinds of header the request carries.
KeyApplied == HasHeader(BuiltHeaders, "Ocp-Apim-Subscription-Key")
CustomApplied ==
    /\ arg.auth.headers # <<>>
    /\ \E i \in 0..Len(BuiltHeaders) :
         SubSeq(BuiltHeaders, i + 1, Len(BuiltHeaders)) = arg.auth.headers
OriginApplied == <<"Origin", ORIGIN>> \in {BuiltHeaders[i] : i \in 1..Len(BuiltHeaders)}

\* C15 as stated: every request carries exactly one of the three kinds of
\* header, the key's when a key is supplied, else the custom ones, else Origin.
C15_ExactlyOneAlternative ==
    Built => /\ KeyApplied <=> arg.auth.key # None
             /\ CustomApplied <=> (arg.auth.key = None /\ arg.auth.headers # <<>>)
             /\ OriginApplied <=> (arg.auth.key = None /\ arg.auth.headers = <<>>)

\* C15, as the code has it: the key's header is sent exactly when a key is
\* supplied, whatever else is sent; after it come the custom headers in their
\* order when there are any, else Origin when the endpoint is the default one,
\* else nothing; so custom headers always suppress the default Origin, and a
\* request carries none, one or two of the three kinds.
C15_KeyThenCustomElseOrigin ==
    (arg.op = "request" /\ ret # None)
        => IF ~UrlParses(arg.auth.endpoint)
           THEN ret[1].status = "err" /\ ret[1].error[1].kind = "InvalidRequest"
           ELSE IF arg.auth.key # None /\ ~IsHeaderValue(arg.auth.key[1])
           THEN ret[1].status = "err" /\ ret[1].error[1].kind = "ArgumentError"
           ELSE /\ Built
                /\ KeyApplied <=> arg.auth.key # None
                /\ KeyApplied => BuiltHeaders[1] = <<"Ocp-Apim-Subscription-Key", arg.auth.key[1]>>
                /\ CustomApplied <=> arg.auth.headers # <<>>
                /\ OriginApplied <=> (arg.auth.headers = <<>> /\ arg.auth.endpoint = DEFAULT_ENDPOINT)
                /\ Len(BuiltHeaders) = (IF KeyApplied THEN 1 ELSE 0)
                                       + (IF CustomApplied THEN Len(arg.auth.headers) ELSE 0)
                                       + (IF OriginApplied THEN 1 ELSE 0)

\* A request built with a key and two custom headers carries all three.
C15_Witness ==
    /\ Built
    /\ arg.auth.key = Some("k1")
    /\ BuiltHeaders = <<<<"Ocp-Apim-Subscription-Key", "k1">>, <<"X-B", "2">>, <<"X-A", "1">>>>

\* ------------------------------------------------- audio format lookup
\* QUALITY_MAP: for each container, the format of each quality level.
QUALITY_MAP ==
    [wav |-> [q \in -2..1 |->
                CASE q = -2 -> "riff-8khz-16bit-mono-pcm"
                  [] q = -1 -> "riff-16khz-16bit-mono-pcm"
                  [] q = 0 -> "riff-24khz-16bit-mono-pcm"
                  [] OTHER -> "riff-48khz-16bit-mono-pcm"],
     mp3 |-> [q \in -4..3 |->
                CASE q = -4 -> "audio-16khz-32kbitrate-mono-mp3"
                  [] q = -3 -> "audio-16khz-64kbitrate-mono-mp3"
                  [] q = -2 -> "audio-16khz-128kbitrate-mono-mp3"
                  [] q = -1 -> "audio-24khz-48kbitrate-mono-mp3"
                  [] q = 0 -> "audio-24khz-96kbitrate-mono-mp3"
                  [] q = 1 -> "audio-24khz-160kbitrate-mono-mp3"
                  [] q = 2 -> "audio-48khz-96kbitrate-mono-mp3"
                  [] OTHER -> "audio-48khz-192kbitrate-mono-mp3"],
     ogg |-> [q \in -1..1 |->
                CASE q = -1 -> "ogg-16khz-16bit-mono-opus"
                  [] q = 0 -> "ogg-24khz-16bit-mono-opus"
                  [] OTHER -> "ogg-48khz-16bit-mono-opus"],
     webm |-> [q \in -1..1 |->
                CASE q = -1 -> "webm-16khz-16bit-mono-opus"
                  [] q = 0 -> "webm-24khz-16bit-24kbps-mono-opus"
                  [] OTHER -> "webm-24khz-16bit-mono-opus"]]

\* QUALITY_RANGE_MAP: for each container, its lowest and highest quality.
QUALITY_RANGE_MAP ==
    [wav |-> <<-2, 1>>, mp3 |-> <<-4, 3>>, ogg |-> <<-1, 1>>, webm |-> <<-1, 1>>]

\* map.get(key) of a phf map, as an Option.
Get(map, key) == IF key \in DOMAIN map THEN Some(map[key]) ELSE None

\* A call that panicked (an unwrap() of None).
Panic == [status |-> "panic", value |-> <<>>, error |-> None]

\* The values of an i8.
I8 == -128..127

\* Containers a caller can name: the four of the table, and two it lacks.
Containers == {"wav", "mp3", "ogg", "webm", "flac", ""}

FormatArgs == [op : {"format"}, container : Containers, quality : I8, use_closest : BOOLEAN]

\* Mutant: the far boundary taken for a quality outside the range.
from_container_and_quality_FarBoundary(container, quality, use_closest) ==
    LET map == Get(QUALITY_MAP, container)
    IN IF map = None THEN Err(ArgumentError("No quality map found for container"))
       ELSE IF Get(map[1], quality) # None THEN Ok(Get(map[1], quality)[1])
       ELSE IF use_closest
       THEN LET range == Get(QUALITY_RANGE_MAP, container)
            IN Ok(map[1][IF quality < range[1][1] THEN range[1][2] ELSE range[1][1]])
       ELSE Err(ArgumentError("Invalid quality found for container"))

\* Mutant: the closest quality taken whether or not the caller asked for it.
from_container_and_quality_AlwaysClosest(container, quality, use_closest) ==
    LET map == Get(QUALITY_MAP, container)
    IN IF map = None THEN Err(ArgumentError("No quality map found for container"))
       ELSE IF Get(map[1], quality) # None THEN Ok(Get(map[1], quality)[1])
       ELSE LET range == Get(QUALITY_RANGE_MAP, container)
            IN Ok(map[1][IF quality < range[1][1] THEN range[1][1] ELSE range[1][2]])

\* AudioFormat::from_container_and_quality
from_container_and_quality(container, quality, use_closest) ==
    LET map == Get(QUALITY_MAP, container)
    IN IF map = None THEN Err(ArgumentError("No quality map found for container"))
       ELSE IF Get(map[1], quality) # None THEN Ok(Get(map[1], quality)[1])
       ELSE IF use_closest
       THEN LET range == Get(QUALITY_RANGE_MAP, container)
            IN IF range = None THEN Panic
               ELSE LET min == range[1][1]
                        max == range[1][2]
                        closest == IF quality < min THEN min ELSE max
                    IN IF Get(map[1], closest) = None THEN Panic
                       ELSE Ok(Get(map[1], closest)[1])
       ELSE Err(ArgumentError("Invalid quality found for container"))

\* One format is looked up.
ResolveFormat ==
    /\ ret = None
    /\ arg.op = "format"
    /\ ret' = Some(from_container_and_quality(arg.container, arg.quality, arg.use_closest))
    /\ UNCHANGED <<session, arg, task_pc, borrows, log>>

\* The lookup of the call has returned.
Resolved == arg.op = "format" /\ ret # None

\* The container is in the table; the lowest and highest quality it lists.
KnownContainer == arg.container \in DOMAIN QUALITY_MAP
Lowest == CHOOSE q \in DOMAIN QUALITY_MAP[arg.container] :
              \A r \in DOMAIN QUALITY_MAP[arg.container] : q <= r
Highest == CHOOSE q \in DOMAIN QUALITY_MAP[arg.container] :
               \A r \in DOMAIN QUALITY_MAP[arg.container] : q >= r
Listed == KnownContainer /\ arg.quality \in DOMAIN QUALITY_MAP[arg.container]

\* C16: a (container, quality) pair of the table resolves to the table's format
\* whatever use_closest is; with use_closest, a quality below the container's
\* lowest resolves to the format of the lowest and a quality above its highest
\* to the format of the highest.
C16_TableOrNearestBoundary ==
    Resolved
        => /\ Listed => ret[1] = Ok(QUALITY_MAP[arg.container][arg.quality])
           /\ (KnownContainer /\ arg.use_closest /\ arg.quality < Lowest)
                => ret[1] = Ok(QUALITY_MAP[arg.container][Lowest])
           /\ (KnownContainer /\ arg.use_closest /\ arg.quality > Highest)
                => ret[1] = Ok(QUALITY_MAP[arg.container][Highest])

\* A quality below mp3's lowest was resolved to the format of the lowest.
C16_Witness ==
    /\ Resolved
    /\ arg.container = "mp3" /\ arg.quality = -7 /\ arg.use_closest
    /\ ret[1] = Ok("audio-16khz-32kbitrate-mono-mp3")

\* C17: an unknown container fails with an argument error, as does a quality
\* the known container does not list when use_closest is off; no input makes
\* the lookup panic.
C17_ArgumentErrorNeverPanic ==
    Resolved
        => /\ ret[1].status # "panic"
           /\ ~KnownContainer
                => ret[1].status = "err" /\ ret[1].error[1].kind = "ArgumentError"
           /\ (KnownContainer /\ ~Listed /\ ~arg.use_closest)
                => ret[1].status = "err" /\ ret[1].error[1].kind = "ArgumentError"

\* A quality wav does not list was refused with use_closest off.
C17_Witness ==
    /\ Resolved
    /\ arg.container = "wav" /\ arg.quality = 2 /\ ~arg.use_closest
    /\ ret[1] = Err(ArgumentError("Invalid quality found for container"))

\* ------------------------------------------------- error classification
\* The types of cause WebsocketSynthesizerError has a From impl for.
CauseTypes == {"header", "url", "connect", "tungstenite", "ssml", "parse"}

\* Two errors of each type.
Causes == {"cause a", "cause b"}

\* Close frames the Close arm can be handed.
CloseFrames == {CloseNoneF.frame, Close1006F.frame, Some([code |-> 1000, reason |-> "bye"])}

FailArgs ==
    [op : {"convert"}, cause_type : CauseTypes, cause : Causes]
    \cup [op : {"close"}, frame : CloseFrames]

\* Mutant: a templating failure classified as an invalid request.
FromSsmlError_AsInvalidRequest(e) == Error("InvalidRequest", "", "", e)

\* From<crate::ssml::SsmlError>: kind Ssml, the error kept as source.
FromSsmlError(e) == Error("Ssml", "", "", e)

\* WebsocketSynthesizerError::from(e), by the type of e.
From(ty, e) ==
    IF ty = "ssml" THEN FromSsmlError(e)
    ELSE Into("WebsocketSynthesizer", ty, e)

\* A failure is turned into the WebsocketSynthesizerError the caller gets: a
\* cause by its From impl, a Close frame by the Close arm.
Classify ==
    /\ ret = None
    /\ arg.op \in {"convert", "close"}
    /\ ret' = Some(IF arg.op = "convert" THEN From(arg.cause_type, arg.cause)
                   ELSE OnClose(arg.frame))
    /\ UNCHANGED <<session, arg, task_pc, borrows, log>>

\* The kind each type of cause is to be given.
KindOf(ty) ==
    CASE ty = "connect" -> "Connect"
      [] ty = "tungstenite" -> "Websocket"
      [] ty \in {"header", "url"} -> "InvalidRequest"
      [] ty = "parse" -> "InvalidMessage"
      [] ty = "ssml" -> "Ssml"

ProxyArgs == [op : {"proxy"}, proxy : ProxyInputs]

\* Mutant: an https proxy ignored, the endpoint reached directly.
connect_transport_HttpsDirect(proxy) ==
    IF proxy # None /\ Scheme(proxy[1]) = ""
    THEN Err(GeneralConnectionError("Invalid proxy url"))
    ELSE IF proxy = None \/ proxy = Some("https://p")
    THEN Ok(<<"connect_directly">> \o HandshakeMessages)
    ELSE IF Scheme(proxy[1]) = "socks5"
    THEN Ok(<<"connect_via_socks5_proxy">> \o HandshakeMessages)
    ELSE IF Scheme(proxy[1]) = "http"
    THEN Ok(<<"connect_via_http_proxy">> \o HandshakeMessages)
    ELSE Err(GeneralConnectionError("Unsupported proxy scheme"))

\* connect, from the parse of the proxy URL on, when every step it takes
\* succeeds: the net function it calls followed by the messages it sends, or
\* the error it returns having called and sent nothing.
connect_transport(proxy) ==
    IF proxy # None /\ Scheme(proxy[1]) = ""
    THEN Err(GeneralConnectionError("Invalid proxy url"))
    ELSE IF proxy = None
    THEN Ok(<<"connect_directly">> \o HandshakeMessages)
    ELSE IF Scheme(proxy[1]) = "socks5"
    THEN Ok(<<"connect_via_socks5_proxy">> \o HandshakeMessages)
    ELSE IF Scheme(proxy[1]) \in {"http", "https"}
    THEN Ok(<<"connect_via_http_proxy">> \o HandshakeMessages)
    ELSE Err(GeneralConnectionError("Unsupported proxy scheme"))

\* connect picks its transport.
SelectTransport ==
    /\ ret = None
    /\ arg.op = "proxy"
    /\ ret' = Some(connect_transport(arg.proxy))
    /\ UNCHANGED <<session, arg, task_pc, borrows, log>>

\* The net functions that open a connection.
NetFunctions == {"connect_directly", "connect_via_socks5_proxy", "connect_via_http_proxy"}

\* C21: connect calls exactly one net function, chosen by the proxy: none gives
\* the direct path, socks5 the SOCKS5 tunnel, http and https the HTTP CONNECT
\* tunnel, and speech.config is sent after it; a proxy that is no URL or has
\* another scheme fails the connect with no net function called and nothing
\* sent.
C21_TransportByProxy ==
    (arg.op = "proxy" /\ ret # None)
        => LET r == ret[1]
               via == IF arg.proxy = None THEN "connect_directly"
                      ELSE IF arg.proxy = Some("socks5://p") THEN "connect_via_socks5_proxy"
                      ELSE IF arg.proxy \in {Some("http://p"), Some("https://p")}
                      THEN "connect_via_http_proxy"
                      ELSE "none"
           IN IF via = "none"
              THEN /\ r.status = "err"
                   /\ r.value = <<>>
                   /\ r.error[1].kind = "GeneralConnectionError"
              ELSE /\ r.status = "ok"
                   /\ r.value = <<via, "speech.config">>
                   /\ Cardinality({i \in 1..Len(r.value) : r.value[i] \in NetFunctions}) = 1

\* An https proxy was given the HTTP CONNECT tunnel.
C21_Witness ==
    /\ arg.op = "proxy"
    /\ arg.proxy = Some("https://p")
    /\ ret = Some(Ok(<<"connect_via_http_proxy", "speech.config">>))

\* ------------------------------------------------- the CLI's commands
\* The transport condition main looks for, as the AspeakError it arrives in.
ResetError == AspeakErrorFrom("tungstenite", ResetE.err)

\* What connect and synthesize can hand to main.
ConnectOutcomes == {Ok(<<>>), Err(AspeakErrorFrom("connect", "ConnectError"))}
SynthesizeOutcomes ==
    {Ok(<<>>), Err(ResetError), Err(AspeakErrorFrom("tungstenite", "SendError")),
     Err(AspeakErrorFrom("parse", "ParseError")), Err(OnClose(None))}

CliArgs ==
    [op : {"cli"}, command : {"ssml", "text"}, connected : ConnectOutcomes,
     synthesized : SynthesizeOutcomes]

NOTE == "This error usually indicates a poor internet connection or that the remote API terminates your service."

\* What main reports: the error it exits with, if any, and the note attached.
Report(error, note) == [error |-> error, note |-> note]

\* main, the arm of the SSML or the Text command from connect() on.
main(command, connected, synthesized) ==
    IF connected.status = "err" THEN Report(connected.error, None)
    ELSE IF command = "ssml" THEN Report(synthesized.error, None)
    ELSE IF synthesized = Err(ResetError) THEN Report(synthesized.error, Some(NOTE))
    ELSE Report(synthesized.error, None)

\* One run of a synthesis command.
RunCommand ==
    /\ ret = None
    /\ arg.op = "cli"
    /\ ret' = Some(main(arg.command, arg.connected, arg.synthesized))
    /\ UNCHANGED <<session, arg, task_pc, borrows, log>>

\* C26: a synthesis command, text or SSML, whose synthesis fails with the reset
\* without closing handshake reports the error with the note.  The SSML
\* command reports it bare.
C26_ResetIsReportedWithNote ==
    (/\ arg.op = "cli"
     /\ ret # None
     /\ arg.connected.status = "ok"
     /\ arg.synthesized = Err(ResetError))
        => /\ ret[1].error = Some(ResetError)
           /\ ret[1].note = Some(NOTE)

\* ------------------------------------------------ functions on their own
FnSession ==
    /\ config = Consumed
    /\ conn = "none"
    /\ connect_error = None
    /\ sent = <<>>
    /\ stream = <<>>
    /\ rpos = 0
    /\ call_start = 0
    /\ pc = "idle"
    /\ buffer = <<>>
    /\ audio_metadata = <<>>
    /\ self_audio_metadata = None
    /\ result = NoResult
    /\ calls = 0

FnInputs == EncodeInputs \cup RequestArgs \cup FormatArgs \cup FailArgs \cup ProxyArgs
            \cup CliArgs

FnInit ==
    /\ FnSession
    /\ impl = "WebsocketSynthesizer"
    /\ task_pc = <<>>
    /\ borrows = [write |-> 0, read |-> 0]
    /\ log = <<>>
    /\ arg \in FnInputs
    /\ ret = None

FnNext ==
    Encode \/ BuildRequest \/ ResolveFormat \/ Classify \/ SelectTransport \/ RunCommand

FnSpec == FnInit /\ [][FnNext]_vars


\* --------------------------------------- calls that overlap on one instance
\* Futures of synthesize_ssml created on the same instance and polled by one
\* thread (both structs hold a stream that is not Sync).  A future runs until
\* an await is pending; a borrow_mut() taken in the awaited expression is held
\* until that await completes.
MaxTasks == 2
MaxReads == 3

Tasks == 1..MaxTasks

\* A call that was entered and has neither returned nor been unwound.
Live(p) == p \in {"send_context", "send_ssml", "read"}

\* Whether call t may be entered now.  WebsocketSynthesizer::synthesize_ssml
\* takes `&mut self`: no second future exists while one is alive.
\* Synthesizer::synthesize_ssml takes `&self`: any number may be alive.
MayEnter(im, pcs, t) ==
    IF im = "WebsocketSynthesizer"
    THEN \A u \in Tasks \ {t} : ~Live(pcs[u])
    ELSE TRUE

\* RefCell::borrow_mut(): the cell is taken, or the caller panics when another
\* borrow is alive.  WebsocketSynthesizer owns the stream, with no cell.
BorrowMut(im, cells, half, t) ==
    IF im = "WebsocketSynthesizer" THEN cells
    ELSE IF cells[half] = 0 THEN [cells EXCEPT ![half] = t]
    ELSE cells

Panics(im, cells, half) == im = "Synthesizer" /\ cells[half] # 0

Release(cells, half) == [cells EXCEPT ![half] = 0]

\* A panic unwinds through the poll of the joined futures: all are dropped.
Unwound(pcs, t) ==
    [u \in Tasks |-> IF u = t THEN "panicked"
                     ELSE IF Live(pcs[u]) THEN "dropped" ELSE pcs[u]]

LogEntry(t, op, what) == [task |-> t, op |-> op, what |-> what]

\* A call is entered and reaches its first await, the send of synthesis.context.
Enter(t) ==
    /\ task_pc[t] = "new"
    /\ MayEnter(impl, task_pc, t)
    /\ IF Panics(impl, borrows, "write")
       THEN /\ task_pc' = Unwound(task_pc, t)
            /\ borrows' = [write |-> 0, read |-> 0]
       ELSE /\ task_pc' = [task_pc EXCEPT ![t] = "send_context"]
            /\ borrows' = BorrowMut(impl, borrows, "write", t)
    /\ UNCHANGED <<session, arg, ret, log>>

\* The send of synthesis.context completes; the call goes on to await the send
\* of the ssml message.
ContextSent(t) ==
    /\ task_pc[t] = "send_context"
    /\ log' = Append(log, LogEntry(t, "send", "synthesis.context"))
    /\ task_pc' = [task_pc EXCEPT ![t] = "send_ssml"]
    /\ borrows' = BorrowMut(impl, Release(borrows, "write"), "write", t)
    /\ UNCHANGED <<session, arg, ret>>

\* The send of ssml completes; the call goes on to await the first frame.
SsmlSent(t) ==
    /\ task_pc[t] = "send_ssml"
    /\ log' = Append(log, LogEntry(t, "send", "ssml"))
    /\ LET freed == Release(borrows, "write")
       IN IF Panics(impl, freed, "read")
          THEN /\ task_pc' = Unwound(task_pc, t)
               /\ borrows' = [write |-> 0, read |-> 0]
          ELSE /\ task_pc' = [task_pc EXCEPT ![t] = "read"]
               /\ borrows' = BorrowMut(impl, freed, "read", t)
    /\ UNCHANGED <<session, arg, ret>>

\* How many frames call t has read.
ReadsOf(l, t) == Cardinality({i \in 1..Len(l) : l[i].task = t /\ l[i].op = "read"})

\* stream.next() completes with a frame: audio goes round the loop to the next
\* await, turn.end returns.
FrameRead(t) ==
    /\ task_pc[t] = "read"
    /\ \E what \in {"audio", "turn.end"} :
         /\ what = "audio" => ReadsOf(log, t) + 1 < MaxReads
         /\ log' = Append(log, LogEntry(t, "read", what))
         /\ IF what = "turn.end"
            THEN /\ task_pc' = [task_pc EXCEPT ![t] = "returned"]
                 /\ borrows' = Release(borrows, "read")
            ELSE /\ task_pc' = task_pc
                 /\ borrows' = BorrowMut(impl, Release(borrows, "read"), "read", t)
    /\ UNCHANGED <<session, arg, ret>>

CoInit ==
    /\ FnSession
    /\ impl \in Impls
    /\ arg = None
    /\ ret = None
    /\ task_pc = [t \in Tasks |-> "new"]
    /\ borrows = [write |-> 0, read |-> 0]
    /\ log = <<>>

CoNext == \E t \in Tasks : Enter(t) \/ ContextSent(t) \/ SsmlSent(t) \/ FrameRead(t)

CoSpec == CoInit /\ [][CoNext]_vars

\* C13: while a call on an instance has not returned, no other call on that
\* instance sends a message or reads a frame.  Synthesizer breaks this: with
\* one call waiting for a frame, a second call takes the free write half.
C13_OneCallAtATime ==
    [][\A t \in Tasks :
         (Len(log') > Len(log) /\ log'[Len(log')].task = t)
             => \A u \in Tasks \ {t} : ~Live(task_pc[u])]_vars


\* The error kinds that report a failure to establish the connection.
ConnectClass(e) == e.kind \in {"Connect", "GeneralConnectionError"}

\* A proxy setting connect cannot use: not a URL, or a scheme it does not know.
BadProxy(p) == p # None /\ Scheme(p[1]) \notin {"socks5", "http", "https"}

\* C14: connect ends either with an open session on which speech.config was
\* sent, or with an error and no session, on which nothing more can happen;
\* with a usable request, a bad proxy setting or a failure to establish the
\* stream gives a Connect-class error (what is left is the failed send of
\* speech.config, a transport error).
C14_ConnectAllOrNothing ==
    [][/\ conn # "failed"
       /\ (conn = "none" /\ conn' = "open")
            => /\ connect_error' = None
               /\ sent' = <<"speech.config">>
       /\ (conn = "none" /\ conn' = "failed")
            => /\ connect_error' # None
               /\ sent' = <<>>
               /\ config.request = "ok"
                    => IF BadProxy(config.proxy) \/ connect_error'[1].source = "ConnectError"
                       THEN ConnectClass(connect_error'[1])
                       ELSE connect_error'[1].kind = "Websocket"]_vars

\* connect has refused a proxy setting with a scheme it does not know.
C14_Witness ==
    /\ conn = "failed"
    /\ connect_error = Some(GeneralConnectionError("Unsupported proxy scheme"))
    /\ sent = <<>>


\* C18: a call returns Ok only from Streaming, the state a TurnStart leads to:
\* a call that returns Ok at a TurnEnd has received a TurnStart before it.  The
\* loop keeps no state and breaks at a TurnEnd wherever it comes.
C18_TurnEndOnlyAfterTurnStart ==
    (/\ pc = "returned"
     /\ result.status = "ok"
     /\ Processed # <<>>
     /\ IsKind(Last(Processed), "TurnEnd"))
        => \E i \in 1..Len(Processed) : IsKind(Processed[i], "TurnStart")

\* Index in the stream of the TurnEnd that ends the first turn, 0 before it has
\* arrived.  The service answers each ssml message with one turn, whose last
\* frame is its TurnEnd, and the stream keeps the frames in order.
FirstTurnEnd ==
    IF \E i \in 1..Len(stream) : IsKind(stream[i], "TurnEnd")
    THEN CHOOSE i \in 1..Len(stream) :
             /\ IsKind(stream[i], "TurnEnd")
             /\ \A j \in 1..(i - 1) : ~IsKind(stream[j], "TurnEnd")
    ELSE 0

\* The first call read frames of its turn and failed at a read error or at a
\* frame it could not parse, before the turn's TurnEnd.
FirstFailedMidTurn ==
    /\ call_start >= 1
    /\ \/ stream[call_start].t = "Err"
       \/ stream[call_start] \in UnparsableFrames
    /\ FirstTurnEnd > call_start

\* What the running call has read of the turns after the first.
OwnTurn == SubSeq(stream, FirstTurnEnd + 1, rpos)

\* C19: when the first call fails in the middle of its turn and the rest of
\* that turn arrives afterwards, the second call returns only payloads of its
\* own turn.  The code leaves the rest of the failed turn in the stream, and
\* the second call reads it as if it were its own.
C19_NoLeakFromFailedTurn ==
    (/\ calls = 2
     /\ pc = "returned"
     /\ result.status = "ok"
     /\ FirstFailedMidTurn
     /\ rpos >= FirstTurnEnd)
        => /\ result.value = AudioOf(OwnTurn)
           /\ HasMetadata => self_audio_metadata = Some(MetaOf(OwnTurn))


\* A TurnStart, Response or Unrecognized message.
Ignorable(item) ==
    \/ IsKind(item, "TurnStart")
    \/ IsKind(item, "Response")
    \/ IsKind(item, "Unrecognized")

\* q without its TurnStart, Response and Unrecognized messages.
RECURSIVE WithoutIgnorable(_)
WithoutIgnorable(q) ==
    IF q = <<>> THEN <<>>
    ELSE IF Ignorable(q[1]) THEN WithoutIgnorable(Tail(q))
    ELSE <<q[1]>> \o WithoutIgnorable(Tail(q))

\* The receive loop run over the items of q from the given locals: the return
\* value (NoResult when q leaves the call in its loop) and the locals.
RECURSIVE RunLoop(_, _, _, _)
RunLoop(im, q, buf, meta) ==
    IF q = <<>> THEN [ret |-> NoResult, buffer |-> buf, meta |-> meta]
    ELSE LET s == LoopStep(im, q[1], buf, meta)
         IN IF s.ret # NoResult THEN [ret |-> s.ret, buffer |-> s.buffer, meta |-> s.meta]
            ELSE RunLoop(im, Tail(q), s.buffer, s.meta)

\* C22: what a call has accumulated, and what it returns, is what the loop
\* gives on the items it read with every TurnStart, Response and Unrecognized
\* message deleted: the same buffer and metadata while it receives, the same
\* Ok or Err when it returns (at the end of the stream, Ok of that buffer).
C22_IgnorableMessagesDoNotMatter ==
    LET r == RunLoop(impl, WithoutIgnorable(Processed), <<>>, <<>>)
    IN /\ pc = "recv"
            => /\ r.ret = NoResult
               /\ buffer = r.buffer
               /\ audio_metadata = r.meta
       /\ (pc = "returned" /\ ~SendFailed)
            => /\ IF r.ret = NoResult
                  THEN EndedByStreamEnd /\ result = Ok(r.buffer)
                  ELSE result = r.ret
               /\ (HasMetadata /\ result.status = "ok")
                    => self_audio_metadata = Some(r.meta)

\* Audio came before the TurnStart and the call returned it at the TurnEnd.
C22_Witness ==
    /\ pc = "returned"
    /\ Processed = <<AudioAF, TurnStartF, TurnEndF>>
    /\ result = Ok(<<65>>)


\* The step in which a call returns Ok.
ReturnsOk == pc # "returned" /\ pc' = "returned" /\ result'.status = "ok"

\* C23: the field audio_metadata of a WebsocketSynthesizer is None until a call
\* is made; a call that returns Ok sets it to exactly the metadata of that call, whatever
\* it held, and no other step (a failing call among them) changes it.
C23_MetadataOfLastSuccessfulCall ==
    [][HasMetadata
         => /\ calls = 0 => self_audio_metadata = None
            /\ IF ReturnsOk
               THEN self_audio_metadata' = Some(MetaOf(Processed'))
               ELSE self_audio_metadata' = self_audio_metadata]_vars

\* The second call succeeded with no metadata after a first that had some.
C23_Witness ==
    /\ HasMetadata
    /\ calls = 2
    /\ pc = "returned"
    /\ stream = <<MetaM1F, TurnEndF, TurnEndF>>
    /\ rpos = 3
    /\ self_audio_metadata = Some(<<>>)


\* The step in which a call returns because one of its two sends failed.
ContextSendFails == calls' = calls + 1 /\ pc' = "returned"
SsmlSendFails == pc = "send_ssml" /\ pc' = "returned"

\* C24: a call whose send of synthesis.context fails returns in that step with
\* kind Websocket, having sent no ssml message and read no frame; a call whose
\* send of ssml fails returns in that step with kind Websocket, having read no
\* frame; and a call that failed so has read nothing when it is looked at later.
C24_FailedSendReadsNothing ==
    [][/\ (ContextSendFails \/ SsmlSendFails)
            => /\ result'.status = "err"
               /\ result'.error[1].kind = "Websocket"
               /\ result'.error[1].source = "SendError"
               /\ rpos' = rpos
               /\ rpos' = call_start'
       /\ ContextSendFails => Count(sent', "ssml") = Count(sent, "ssml")
       /\ SendFailed => Processed = <<>>]_vars

\* The send of ssml failed with two frames waiting, and they were left unread.
C24_Witness ==
    /\ SendFailed
    /\ sent = <<"speech.config", "synthesis.context">>
    /\ stream = <<AudioAF, TurnEndF>>
    /\ rpos = 0
    /\ result.error[1].kind = "Websocket"


\* One item of each kind the loop tells apart, and the end of the stream.
LiveItems ==
    {TurnStartF, ResponseF, AudioAF, MetaM1F, OtherPathF,
     TurnEndF, CloseNoneF, NoPathF, ResetE, StreamEnd}

\* The transport delivers one more item, of those kinds.
LiveDeliver ==
    /\ conn = "open"
    /\ Len(stream) < MaxFrames
    /\ IF stream = <<>> THEN TRUE ELSE stream[Len(stream)] # StreamEnd
    /\ \E item \in LiveItems : stream' = Append(stream, item)
    /\ UNCHANGED <<config, impl, conn, connect_error, sent, rpos, call_start, pc,
                   buffer, audio_metadata, self_audio_metadata, result, calls, aside>>

\* The first call on a session.
FirstCall == calls = 0 /\ SendContext

LiveInit == Init /\ config = [proxy |-> None, request |-> "ok"]

LiveNext == Connect \/ LiveDeliver \/ FirstCall \/ SendSsml \/ Receive

\* One call on a session, followed to its return.  The executor polls a call
\* that waits in stream.next().await once the stream has an item for it: the
\* receive step is taken whenever it stays possible.
LiveSpec == LiveInit /\ [][LiveNext]_vars /\ WF_vars(Receive)

\* The stream holds, unread, an item that ends a call.
EndingItemAhead ==
    \E i \in (rpos + 1)..Len(stream) : Terminal(stream[i]) \/ stream[i] = StreamEnd

\* C25: a call in its receive loop returns once the transport has delivered a
\* TurnEnd, a Close, an unparsable frame, a read error or the end of the
\* stream; and it returns for no other reason: a call that has returned from
\* its loop read such an item last or met the end of the stream, so frames of
\* the other kinds alone never make it return.
C25_ReturnsOnEndingItemOnly ==
    /\ (pc = "recv" /\ EndingItemAhead) ~> (pc = "returned")
    /\ [](pc = "returned" /\ ~SendFailed
            => \/ EndedByStreamEnd
               \/ (Processed # <<>> /\ Terminal(Last(Processed))))

\* A call has read three frames, none of which ends it, and is still receiving.
C25_Witness ==
    /\ pc = "recv"
    /\ Processed = <<TurnStartF, AudioAF, OtherPathF>>
    /\ result = NoResult

====
